---- MODULE Spec2Model ----
(***************************************************************************)
(* Index lifecycle of llvm-source-agent.                                   *)
(*                                                                         *)
(* Two processes share one storage directory:                              *)
(*   - the watcher (src/src/watch_and_index.py): initial_index_build,      *)
(*     then a watchdog observer whose single dispatch thread runs the      *)
(*     CodeFileHandler callbacks one after another; a callback that        *)
(*     passes the debounce check rebuilds the whole index and persists it  *)
(*     file by file into the storage directory;                            *)
(*   - the query process (src/src/query.py): DynamicIndexManager, which    *)
(*     compares the newest file modification time of the directory with    *)
(*     last_modified and reloads the index when storage is newer.          *)
(*                                                                         *)
(* Time.  `now` is time.time() in whole seconds; it only enters the        *)
(* debounce arithmetic.  File modification times are only ever compared    *)
(* with each other and with 0, so they are modelled by `fsclock`, a        *)
(* counter that grows with every write (an order-isomorphic image of the   *)
(* real, sub-second mtimes).                                               *)
(***************************************************************************)
EXTENDS Integers, Sequences, FiniteSets, TLC

\* CodeFileHandler.__init__(..., debounce_time=2)
debounce_time == 2

\* The artifact files of a persisted index.  persist writes them in this
\* order and a load reads them in this order; the document store and the
\* vector store stand for the whole set.
Artifacts == <<"docstore.json", "default__vector_store.json">>

NFiles == Len(Artifacts)

\* Both processes together: seconds the clock may advance past the start of
\* the run, and filesystem events the environment fires.
MaxTicks == 1

MaxEvents == 1

\* The watcher alone: the same two bounds.
WatchTicks == 3

WatchEvents == 2

\* The watcher alone under events spaced more than debounce_time apart.
SpacedTicks == 6

SpacedEvents == 3

\* The watcher alone under a continuous stream of events.
StreamTicks == 2

StreamEvents == 3

\* time.time() at process start: an epoch time, far above debounce_time.
StartTime == debounce_time + 1

VARIABLES
    now,                \* time.time(), whole seconds
    \* ---- storage directory (storage_path / index_path)
    dirExists,          \* os.path.exists(storage_path)
    files,              \* artifact file k -> [st, ver, mtime]
    fsclock,            \* modification-time source, grows with every write
    \* ---- watcher process
    wpc,                \* thread -> position in the watcher code
    wInitial,           \* thread -> TRUE while it runs initial_index_build
    current_time,       \* thread -> rebuild_index's local current_time
    last_rebuild_time,  \* CodeFileHandler.last_rebuild_time
    wpos,               \* thread -> next write step of persist
    wver,               \* thread -> identity of the index being persisted
    nextVer,            \* identity the next built index gets
    queue,              \* observer's event queue
    observer,           \* "off" | "running"
    \* ---- watcher history
    nFired,             \* events fired so far
    lastFired,          \* time the last event was fired, -1 if none
    log,                \* one record per callback that reached rebuild_index
    initStart,          \* start time of the initial build, -1 if none
    snap,               \* thread -> storage files when its rebuild started
    outcome,            \* thread -> outcome of its most recent rebuild
    newest,             \* identity of the newest completely persisted index
    \* ---- query process (DynamicIndexManager)
    qpc,                \* position in the manager code
    caller,             \* who called _load_index: "ctor" | "query"
    index,              \* self.index: None or the artifacts loaded
    query_engine,       \* self.query_engine
    last_modified,      \* self.last_modified
    rk,                 \* next artifact file _load_index reads
    buf,                \* artifacts read so far by the running load
    result,             \* what the last query returned
    \* ---- query history
    everLoaded,         \* some load has succeeded
    preIndex,           \* self.index when the running/last reload began
    reloadFailed,       \* the last reload attempted by query failed
    qClock,             \* `fsclock` when the running/last query started
    createdOn,          \* storage as the constructor found it
    bufTime,            \* newest mtime of the files the running load has read
    loadedTime,         \* newest mtime, as read, of the files `index` came from
    lastLoad            \* how the last _load_index ended: "none" | "ok" | "failed"

storageVars == <<dirExists, files, fsclock>>
watcherVars == <<wpc, wInitial, current_time, last_rebuild_time, wpos, wver,
                 nextVer, queue, observer>>
watcherHist == <<nFired, lastFired, log, initStart, snap, outcome, newest>>
managerVars == <<qpc, caller, index, query_engine, last_modified, rk, buf, result>>
managerHist == <<everLoaded, preIndex, reloadFailed, qClock, createdOn, bufTime,
                 loadedTime, lastLoad>>
vars == <<now, storageVars, watcherVars, watcherHist, managerVars, managerHist>>

----------------------------------------------------------------------------
\* Storage

None == <<>>

FileIds == 1..NFiles

AbsentFile == [st |-> "absent", ver |-> 0, mtime |-> 0]

CompleteFile(v, m) == [st |-> "complete", ver |-> v, mtime |-> m]

NoFiles == [k \in FileIds |-> AbsentFile]

\* A complete artifact set of index v, written by one persist.
FullSet(v) == [k \in FileIds |-> CompleteFile(v, k)]

Uniform(v) == [k \in FileIds |-> v]

Max(S) == CHOOSE x \in S : \A y \in S : y <= x

\* initial_index_build testing only os.path.exists(storage_path): a directory
\* that exists is never taken for empty.
listdir_empty_never(fs) == FALSE

\* os.listdir(storage_path) is empty
listdir_empty(fs) == \A k \in FileIds : fs[k].st = "absent"

\* _get_index_modification_time with min(latest_time, mod_time) in the walk.
get_index_modification_time_min ==
    IF ~dirExists THEN 0
    ELSE CHOOSE x \in {0} \cup {files[k].mtime : k \in FileIds} :
            \A y \in {0} \cup {files[k].mtime : k \in FileIds} : x <= y

\* DynamicIndexManager._get_index_modification_time
get_index_modification_time ==
    IF ~dirExists THEN 0
    ELSE Max({0} \cup {files[k].mtime : k \in {j \in FileIds : files[j].st # "absent"}})

----------------------------------------------------------------------------
\* Watcher

Threads == {1, 2}

Observer == 1

\* The filesystem events watchdog can deliver.  src_isfile / dest_isfile are
\* what os.path.isfile answers for the path when the callback runs: the path
\* of a deleted file, and the old path of a moved one, are no longer files.
EventInputs ==
    { [kind |-> "modified", is_directory |-> FALSE, src_isfile |-> TRUE,  dest_isfile |-> FALSE],
      [kind |-> "created",  is_directory |-> FALSE, src_isfile |-> TRUE,  dest_isfile |-> FALSE],
      [kind |-> "deleted",  is_directory |-> FALSE, src_isfile |-> FALSE, dest_isfile |-> FALSE],
      [kind |-> "moved",    is_directory |-> FALSE, src_isfile |-> FALSE, dest_isfile |-> TRUE],
      [kind |-> "modified", is_directory |-> TRUE,  src_isfile |-> FALSE, dest_isfile |-> FALSE] }

\* CodeFileHandler.should_process_file
should_process_file(isfile) == isfile

\* The guard of on_modified / on_created / on_deleted / on_moved
Qualifies(e) ==
    /\ ~e.is_directory
    /\ IF e.kind = "moved"
       THEN should_process_file(e.src_isfile) \/ should_process_file(e.dest_isfile)
       ELSE should_process_file(e.src_isfile)

\* CodeFileHandler.__init__ with self.last_rebuild_time = time.time()
initial_last_rebuild_time_now == now

\* CodeFileHandler.__init__: self.last_rebuild_time = 0
initial_last_rebuild_time == 0

\* rebuild_index's debounce check: TRUE when the rebuild is skipped
Debounced(t, last) == t - last < debounce_time

----------------------------------------------------------------------------
\* Initial states

\* The storage directory at the start of a run: missing, empty, or holding the
\* complete index (identity 1) that an earlier run persisted.
InitStorage ==
    \/ /\ dirExists = FALSE /\ files = NoFiles /\ fsclock = 0
       /\ nextVer = 1 /\ newest = 0
    \/ /\ dirExists = TRUE /\ files = NoFiles /\ fsclock = 0
       /\ nextVer = 1 /\ newest = 0
    \/ /\ dirExists = TRUE /\ files = FullSet(1) /\ fsclock = NFiles
       /\ nextVer = 2 /\ newest = 1

InitWatcher ==
    /\ wpc = [t \in Threads |-> IF t = Observer THEN "start" ELSE "idle"]
    /\ wInitial = [t \in Threads |-> FALSE]
    /\ current_time = [t \in Threads |-> 0]
    /\ last_rebuild_time = 0
    /\ wpos = [t \in Threads |-> 0]
    /\ wver = [t \in Threads |-> 0]
    /\ queue = <<>>
    /\ observer = "off"
    /\ nFired = 0
    /\ lastFired = -1
    /\ log = <<>>
    /\ initStart = -1
    /\ snap = [t \in Threads |-> NoFiles]
    /\ outcome = [t \in Threads |-> "none"]

NoResult == [kind |-> "none", from |-> None]

InitManager ==
    /\ qpc = "new"
    /\ caller = "ctor"
    /\ index = None
    /\ query_engine = None
    /\ last_modified = 0
    /\ rk = 0
    /\ buf = None
    /\ result = NoResult
    /\ everLoaded = FALSE
    /\ preIndex = None
    /\ reloadFailed = FALSE
    /\ qClock = 0
    /\ createdOn = "none"
    /\ bufTime = 0
    /\ loadedTime = 0
    /\ lastLoad = "none"

Init ==
    /\ now = StartTime
    /\ InitStorage
    /\ InitWatcher
    /\ InitManager

----------------------------------------------------------------------------
\* Environment

\* A second of wall-clock time passes.  The observer's dispatch thread blocks
\* on its queue, so a queued event's callback starts well within the second
\* in which the thread is free: time does not pass over an idle dispatcher
\* with an event waiting.
Tick(maxTicks) ==
    /\ now < StartTime + maxTicks
    /\ queue = <<>> \/ wpc[Observer] # "idle"
    /\ now' = now + 1
    /\ UNCHANGED <<storageVars, watcherVars, watcherHist, managerVars, managerHist>>

\* A filesystem event under the source tree reaches the running observer.
\* With `spaced`, the environment leaves more than debounce_time between
\* two events.
FireEvent(maxEvents, spaced) ==
    /\ observer = "running"
    /\ nFired < maxEvents
    /\ spaced => (nFired = 0 \/ now - lastFired > debounce_time)
    /\ \E e \in EventInputs :
         queue' = Append(queue, [ev |-> e, fired |-> now])
    /\ nFired' = nFired + 1
    /\ lastFired' = now
    /\ UNCHANGED <<now, storageVars, wpc, wInitial, current_time, last_rebuild_time,
                   wpos, wver, nextVer, observer, log, initStart, snap, outcome,
                   newest, managerVars, managerHist>>

----------------------------------------------------------------------------
\* Watcher process

\* start_file_watcher up to observer.start(): initial_index_build decides
\* whether to build; with an index present the handler is created and the
\* observer started at once.
StartWatcher(t) ==
    /\ wpc[t] = "start"
    /\ IF ~dirExists \/ listdir_empty(files)
       THEN /\ wpc' = [wpc EXCEPT ![t] = "build"]
            /\ wInitial' = [wInitial EXCEPT ![t] = TRUE]
            /\ initStart' = now
            /\ snap' = [snap EXCEPT ![t] = files]
            /\ outcome' = [outcome EXCEPT ![t] = "running"]
            /\ UNCHANGED <<observer, last_rebuild_time>>
       ELSE /\ wpc' = [wpc EXCEPT ![t] = "idle"]
            /\ observer' = "running"
            /\ last_rebuild_time' = initial_last_rebuild_time
            /\ UNCHANGED <<wInitial, initStart, snap, outcome>>
    /\ UNCHANGED <<now, storageVars, current_time, wpos, wver, nextVer, queue,
                   nFired, lastFired, log, newest, managerVars, managerHist>>

\* A debounce check that restarts the window at every event it drops
\* (the window measured from the last event seen).
Dispatch_extends_window(t) ==
    /\ wpc[t] = "idle"
    /\ observer = "running"
    /\ queue # <<>>
    /\ LET e == Head(queue) IN
       /\ queue' = Tail(queue)
       /\ IF ~Qualifies(e.ev)
          THEN UNCHANGED <<wpc, current_time, log, snap, outcome, last_rebuild_time>>
          ELSE /\ current_time' = [current_time EXCEPT ![t] = now]
               /\ IF Debounced(now, last_rebuild_time)
                  THEN /\ log' = Append(log, [fired |-> e.fired, ran |-> now, rebuilt |-> FALSE])
                       /\ last_rebuild_time' = now
                       /\ UNCHANGED <<wpc, snap, outcome>>
                  ELSE /\ log' = Append(log, [fired |-> e.fired, ran |-> now, rebuilt |-> TRUE])
                       /\ wpc' = [wpc EXCEPT ![t] = "build"]
                       /\ snap' = [snap EXCEPT ![t] = files]
                       /\ outcome' = [outcome EXCEPT ![t] = "running"]
                       /\ UNCHANGED last_rebuild_time
    /\ UNCHANGED <<now, storageVars, wInitial, wpos, wver, nextVer,
                   observer, nFired, lastFired, initStart, newest, managerVars, managerHist>>

\* A debounce check that puts the event back at the end of the queue instead
\* of dropping it.
Dispatch_requeues(t) ==
    /\ wpc[t] = "idle"
    /\ observer = "running"
    /\ queue # <<>>
    /\ LET e == Head(queue) IN
       IF ~Qualifies(e.ev)
       THEN /\ queue' = Tail(queue)
            /\ UNCHANGED <<wpc, current_time, log, snap, outcome>>
       ELSE /\ current_time' = [current_time EXCEPT ![t] = now]
            /\ IF Debounced(now, last_rebuild_time)
               THEN /\ queue' = Append(Tail(queue), e)
                    /\ log' = Append(log, [fired |-> e.fired, ran |-> now, rebuilt |-> FALSE])
                    /\ UNCHANGED <<wpc, snap, outcome>>
               ELSE /\ queue' = Tail(queue)
                    /\ log' = Append(log, [fired |-> e.fired, ran |-> now, rebuilt |-> TRUE])
                    /\ wpc' = [wpc EXCEPT ![t] = "build"]
                    /\ snap' = [snap EXCEPT ![t] = files]
                    /\ outcome' = [outcome EXCEPT ![t] = "running"]
    /\ UNCHANGED <<now, storageVars, wInitial, last_rebuild_time, wpos, wver, nextVer,
                   observer, nFired, lastFired, initStart, newest, managerVars, managerHist>>

\* The observer's dispatch thread takes the next event and runs its callback
\* (on_modified, on_created, on_deleted, on_moved) up to and including
\* rebuild_index's debounce check.
Dispatch(t) ==
    /\ wpc[t] = "idle"
    /\ observer = "running"
    /\ queue # <<>>
    /\ LET e == Head(queue) IN
       /\ queue' = Tail(queue)
       /\ IF ~Qualifies(e.ev)
          THEN UNCHANGED <<wpc, current_time, log, snap, outcome>>
          ELSE /\ current_time' = [current_time EXCEPT ![t] = now]
               /\ IF Debounced(now, last_rebuild_time)
                  THEN /\ log' = Append(log, [fired |-> e.fired, ran |-> now, rebuilt |-> FALSE])
                       /\ UNCHANGED <<wpc, snap, outcome>>
                  ELSE /\ log' = Append(log, [fired |-> e.fired, ran |-> now, rebuilt |-> TRUE])
                       /\ wpc' = [wpc EXCEPT ![t] = "build"]
                       /\ snap' = [snap EXCEPT ![t] = files]
                       /\ outcome' = [outcome EXCEPT ![t] = "running"]
    /\ UNCHANGED <<now, storageVars, wInitial, last_rebuild_time, wpos, wver, nextVer,
                   observer, nFired, lastFired, initStart, newest, managerVars, managerHist>>

\* An exception inside the build: rebuild_index catches and logs it and the
\* callback returns with last_rebuild_time as it was; initial_index_build has
\* no handler, so the exception ends the watcher process.
BuildFails(t, stage) ==
    /\ outcome' = [outcome EXCEPT ![t] = stage]
    /\ wInitial' = [wInitial EXCEPT ![t] = FALSE]
    /\ wpc' = [wpc EXCEPT ![t] = IF wInitial[t] THEN "dead" ELSE "idle"]

\* SimpleDirectoryReader(...).load_data() and VectorStoreIndex.from_documents:
\* the new index is built in memory; either call may raise.
BuildIndex(t) ==
    /\ wpc[t] = "build"
    /\ \E how \in {"ok", "read_failed", "embed_failed"} :
         IF how = "ok"
         THEN /\ wpc' = [wpc EXCEPT ![t] = "persist"]
              /\ wpos' = [wpos EXCEPT ![t] = 1]
              /\ wver' = [wver EXCEPT ![t] = nextVer]
              /\ nextVer' = nextVer + 1
              /\ UNCHANGED <<outcome, wInitial>>
         ELSE /\ BuildFails(t, how)
              /\ UNCHANGED <<wpos, wver, nextVer>>
    /\ UNCHANGED <<now, storageVars, current_time, last_rebuild_time, queue, observer,
                   nFired, lastFired, log, initStart, snap, newest, managerVars,
                   managerHist>>

\* index.storage_context.persist(persist_dir): the directory is created if
\* missing, then every artifact file is opened for writing (truncated) and
\* written in turn, in place.  Write step p opens file (p+1) \div 2 when p is
\* odd and completes it when p is even.
WriteStep(t) ==
    LET p == wpos[t]
        k == (p + 1) \div 2
    IN  /\ dirExists' = TRUE
        /\ fsclock' = fsclock + 1
        /\ files' = [files EXCEPT ![k] =
                        [st    |-> IF p % 2 = 1 THEN "partial" ELSE "complete",
                         ver   |-> wver[t],
                         mtime |-> fsclock + 1]]

\* The rebuild's last statements after persist returned: rebuild_index
\* records the rebuild's start time; after the initial build the handler is
\* created (last_rebuild_time = 0) and the observer started.
BuildDone(t) ==
    /\ wpc' = [wpc EXCEPT ![t] = "idle"]
    /\ outcome' = [outcome EXCEPT ![t] = "ok"]
    /\ newest' = wver[t]
    /\ wInitial' = [wInitial EXCEPT ![t] = FALSE]
    /\ IF wInitial[t]
       THEN /\ last_rebuild_time' = initial_last_rebuild_time
            /\ observer' = "running"
       ELSE /\ last_rebuild_time' = current_time[t]
            /\ UNCHANGED observer

Persist(t) ==
    /\ wpc[t] = "persist"
    /\ \/ /\ WriteStep(t)
          /\ IF wpos[t] = 2 * NFiles
             THEN /\ BuildDone(t)
                  /\ UNCHANGED wpos
             ELSE /\ wpos' = [wpos EXCEPT ![t] = wpos[t] + 1]
                  /\ UNCHANGED <<wpc, outcome, newest, wInitial, last_rebuild_time, observer>>
       \/ /\ BuildFails(t, "persist_failed")
          /\ UNCHANGED <<storageVars, wpos, newest, last_rebuild_time, observer>>
    /\ UNCHANGED <<now, current_time, wver, nextVer, queue, nFired, lastFired, log,
                   initStart, snap, managerVars, managerHist>>

----------------------------------------------------------------------------
\* Query process: DynamicIndexManager

Unavailable == [kind |-> "unavailable", from |-> None]

\* How the constructor finds the storage directory.
StorageLooks ==
    IF ~dirExists THEN "missing"
    ELSE IF listdir_empty(files) THEN "empty"
    ELSE "populated"

\* DynamicIndexManager.__init__ up to its call of _load_index
Construct ==
    /\ qpc = "new"
    /\ index' = None
    /\ query_engine' = None
    /\ last_modified' = 0
    /\ createdOn' = StorageLooks
    /\ qpc' = "load"
    /\ caller' = "ctor"
    /\ rk' = 1
    /\ buf' = None
    /\ bufTime' = 0
    /\ UNCHANGED <<now, storageVars, watcherVars, watcherHist, result, everLoaded,
                   preIndex, reloadFailed, qClock, loadedTime, lastLoad>>

\* query's call of _check_and_reload_if_needed: the staleness check
QueryCheck ==
    /\ qpc = "idle"
    /\ qClock' = fsclock
    /\ reloadFailed' = FALSE
    /\ preIndex' = index
    /\ caller' = "query"
    /\ IF get_index_modification_time > last_modified
       THEN /\ qpc' = "load"
            /\ rk' = 1
            /\ buf' = None
       ELSE /\ qpc' = "answer"
            /\ UNCHANGED <<rk, buf>>
    /\ bufTime' = 0
    /\ UNCHANGED <<now, storageVars, watcherVars, watcherHist, index, query_engine,
                   last_modified, result, everLoaded, createdOn, loadedTime, lastLoad>>

\* Where _load_index returns to.
AfterLoad == IF caller = "ctor" THEN "idle" ELSE "answer"

\* _load_index giving up without assigning None: the index and the query
\* engine loaded before stay in place.
LoadGivesUp_keeps_index ==
    /\ UNCHANGED <<index, query_engine>>
    /\ reloadFailed' = (caller = "query")
    /\ qpc' = AfterLoad
    /\ rk' = 0
    /\ buf' = None
    /\ bufTime' = 0
    /\ UNCHANGED loadedTime
    /\ lastLoad' = "failed"

\* _load_index's two ways of giving up: the else branch (path absent) and the
\* except branch (loading raised).  Both set index and query_engine to None.
LoadGivesUp ==
    /\ index' = None
    /\ query_engine' = None
    /\ reloadFailed' = (caller = "query")
    /\ qpc' = AfterLoad
    /\ rk' = 0
    /\ buf' = None
    /\ bufTime' = 0
    /\ loadedTime' = 0
    /\ lastLoad' = "failed"

\* _load_index taking last_modified from the directory also when it gives up.
LoadRead_stamps_on_failure ==
    /\ qpc = "load"
    /\ IF ~dirExists \/ files[rk].st # "complete"
       THEN /\ LoadGivesUp
            /\ last_modified' = get_index_modification_time
       ELSE /\ buf' = Append(buf, files[rk].ver)
            /\ bufTime' = Max({bufTime, files[rk].mtime})
            /\ IF rk = NFiles
               THEN /\ qpc' = "stamp" /\ rk' = 0
               ELSE /\ rk' = rk + 1 /\ UNCHANGED qpc
            /\ UNCHANGED <<index, query_engine, reloadFailed, loadedTime, lastLoad,
                           last_modified>>
    /\ UNCHANGED <<now, storageVars, watcherVars, watcherHist, caller,
                   result, everLoaded, preIndex, qClock, createdOn>>

\* _load_index: os.path.exists, then StorageContext.from_defaults and
\* load_index_from_storage read the artifact files one after another; a file
\* that is missing or half written makes the load raise.
LoadRead ==
    /\ qpc = "load"
    /\ IF ~dirExists \/ files[rk].st # "complete"
       THEN LoadGivesUp
       ELSE /\ buf' = Append(buf, files[rk].ver)
            /\ bufTime' = Max({bufTime, files[rk].mtime})
            /\ IF rk = NFiles
               THEN /\ qpc' = "stamp" /\ rk' = 0
               ELSE /\ rk' = rk + 1 /\ UNCHANGED qpc
            /\ UNCHANGED <<index, query_engine, reloadFailed, loadedTime, lastLoad>>
    /\ UNCHANGED <<now, storageVars, watcherVars, watcherHist, caller, last_modified,
                   result, everLoaded, preIndex, qClock, createdOn>>

\* _load_index after the files are read: index and query engine are
\* replaced and last_modified is taken from the directory as it is now.
LoadStamp ==
    /\ qpc = "stamp"
    /\ index' = buf
    /\ query_engine' = buf
    /\ last_modified' = get_index_modification_time
    /\ everLoaded' = TRUE
    /\ qpc' = AfterLoad
    /\ buf' = None
    /\ loadedTime' = bufTime
    /\ bufTime' = 0
    /\ lastLoad' = "ok"
    /\ UNCHANGED <<now, storageVars, watcherVars, watcherHist, caller, rk, result,
                   preIndex, reloadFailed, qClock, createdOn>>

\* query with an except branch that drops the index and the query engine of
\* the manager when the backend call raises.
Answer_drops_engine ==
    /\ qpc = "answer"
    /\ IF query_engine = None
       THEN /\ result' = Unavailable
            /\ UNCHANGED <<index, query_engine>>
       ELSE \E kind \in {"answer", "error"} :
              /\ result' = [kind |-> kind, from |-> query_engine]
              /\ IF kind = "error"
                 THEN index' = None /\ query_engine' = None
                 ELSE UNCHANGED <<index, query_engine>>
    /\ qpc' = "idle"
    /\ UNCHANGED <<now, storageVars, watcherVars, watcherHist, caller,
                   last_modified, rk, buf, managerHist>>

\* query after the staleness check: the sentinel without a query engine,
\* else the engine's answer, or the error string when the backend call raises.
Answer ==
    /\ qpc = "answer"
    /\ IF query_engine = None
       THEN result' = Unavailable
       ELSE \E kind \in {"answer", "error"} :
              result' = [kind |-> kind, from |-> query_engine]
    /\ qpc' = "idle"
    /\ UNCHANGED <<now, storageVars, watcherVars, watcherHist, caller, index,
                   query_engine, last_modified, rk, buf, managerHist>>

----------------------------------------------------------------------------
\* Specifications

WatcherStep(t) ==
    \/ StartWatcher(t)
    \/ Dispatch(t)
    \/ BuildIndex(t)
    \/ Persist(t)

ManagerStep ==
    \/ Construct
    \/ QueryCheck
    \/ LoadRead
    \/ LoadStamp
    \/ Answer

\* Both processes; callbacks run on the observer's one dispatch thread.
Next ==
    \/ Tick(MaxTicks)
    \/ FireEvent(MaxEvents, FALSE)
    \/ WatcherStep(Observer)
    \/ ManagerStep

Spec == Init /\ [][Next]_vars

\* The watcher process alone, over a longer run.
NextWatch ==
    \/ Tick(WatchTicks)
    \/ FireEvent(WatchEvents, FALSE)
    \/ WatcherStep(Observer)

SpecWatch == Init /\ [][NextWatch]_vars

\* The watcher process alone, the events spaced more than debounce_time apart.
NextSpaced ==
    \/ Tick(SpacedTicks)
    \/ FireEvent(SpacedEvents, TRUE)
    \/ WatcherStep(Observer)

SpecSpaced == Init /\ [][NextSpaced]_vars

\* The handler's callbacks delivered on two threads at once (the handler
\* scheduled with more than one dispatching thread); the code takes no lock.
NextConc ==
    \/ Tick(WatchTicks)
    \/ FireEvent(WatchEvents, FALSE)
    \/ \E t \in Threads : WatcherStep(t)

SpecConc == Init /\ [][NextConc]_vars

\* A continuous stream of qualifying events, one in every second: once the
\* observer runs, no second goes by without its event.
TickStream ==
    /\ observer = "running" => lastFired = now
    /\ Tick(StreamTicks)

FireStream ==
    /\ lastFired < now
    /\ FireEvent(StreamEvents, FALSE)
    /\ Qualifies(queue'[Len(queue')].ev)

\* The watcher process alone under a continuous stream of events.  The
\* dispatch thread blocks on the queue and runs every callback to its end,
\* and a rebuild returns or raises: the watcher's steps are weakly fair.
NextStream ==
    \/ TickStream
    \/ FireStream
    \/ WatcherStep(Observer)

SpecStream == Init /\ [][NextStream]_vars /\ WF_vars(WatcherStep(Observer))

----------------------------------------------------------------------------
\* Properties

\* Storage holds exactly the artifact set of the newest completed persist.
StorageIntact ==
    /\ newest > 0
    /\ \A k \in FileIds : files[k].st = "complete" /\ files[k].ver = newest

\* The last query has returned, and storage was not written since it started.
QuietQueryDone ==
    /\ qpc = "idle"
    /\ result.kind # "none"
    /\ fsclock = qClock

\* C1: a query that starts after a rebuild's persist step has completed (the
\* artifact set of the newest persist is in storage and nothing writes during
\* the query) answers from that newest persisted index.
C1_QueryAnswersNewest ==
    (QuietQueryDone /\ StorageIntact) => result.from = Uniform(newest)

\* C2: after a reload attempted by query has failed, index and query engine
\* are what they were before the reload, and the query was answered from the
\* previously loaded index when there was one.
C2_FailedReloadKeepsIndex ==
    reloadFailed =>
        /\ index = preIndex
        /\ query_engine = preIndex
        /\ (qpc = "idle" /\ preIndex # None) => result.from = preIndex

\* C3: once an index has been loaded, the manager always holds a current
\* index and query engine, so no later query returns the sentinel.
C3_LoadedIndexStays ==
    everLoaded => (index # None /\ query_engine # None)

\* C4: the manager only ever holds an index whose artifact files were all
\* written by one rebuild.
C4_NoMixedIndex ==
    index # None => \E v \in 1..nextVer : index = Uniform(v)

WatcherFailed(t) == outcome[t] \in {"read_failed", "embed_failed", "persist_failed"}

\* The rebuild of thread t started from a completely persisted index.
StartedFromIndex(t) == \A k \in FileIds : snap[t][k].st = "complete"

\* C5: after a rebuild has failed, at whatever stage, the previously persisted
\* artifact set is exactly what it was when that rebuild started (so that a
\* query afterwards loads what a query before would have loaded).
C5_FailedRebuildLeavesStorage ==
    \A t \in Threads : (WatcherFailed(t) /\ StartedFromIndex(t)) => files = snap[t]

\* C6: a manager created on a missing or empty storage directory has no index
\* and answers every query with the sentinel as long as no persist has
\* completed; a query that starts without an index once a persisted index is
\* in storage loads it and answers from it.
C6_UnavailableUntilFirstBuild ==
    createdOn \in {"missing", "empty"} =>
        /\ newest = 0 => /\ index = None
                         /\ query_engine = None
                         /\ result.kind \in {"none", "unavailable"}
        /\ (QuietQueryDone /\ StorageIntact /\ preIndex = None) =>
                /\ result.kind # "unavailable"
                /\ result.from = Uniform(newest)
                /\ index = Uniform(newest)

\* C6 witness: a manager created on a missing directory, which had no index
\* when its last query started, answered that query from the persisted index.
C6_Witness ==
    /\ createdOn = "missing"
    /\ QuietQueryDone
    /\ StorageIntact
    /\ preIndex = None
    /\ result.kind = "answer"
    /\ result.from = Uniform(newest)

Rebuilds == {i \in 1..Len(log) : log[i].rebuilt}

\* Every callback so far belongs to an event fired within one window shorter
\* than debounce_time.
FiredInBurst ==
    \A i, j \in 1..Len(log) : log[i].fired - log[j].fired < debounce_time

\* C7: N >= 1 qualifying events fired within a window shorter than the
\* debounce duration, all handled: exactly one rebuild was executed.
C7_BurstOneRebuild ==
    (Len(log) >= 1 /\ queue = <<>> /\ FiredInBurst) => Cardinality(Rebuilds) = 1

\* Each event was fired more than debounce_time after the previous one.
FiredSpaced ==
    \A i \in 2..Len(log) : log[i].fired - log[i - 1].fired > debounce_time

\* Each callback ran more than debounce_time after the previous one.
RanSpaced ==
    \A i \in 2..Len(log) : log[i].ran - log[i - 1].ran > debounce_time

\* C8 as stated: N qualifying events each fired more than the debounce
\* duration after the previous one cause N rebuilds, one per event.
C8_FiredSpacedAllRebuild ==
    FiredSpaced => Rebuilds = 1..Len(log)

\* C8 amended: N qualifying events whose callbacks each run more than the
\* debounce duration after the previous event's callback cause N rebuilds,
\* one per event, the first event after the handler is created included.
C8_RanSpacedAllRebuild ==
    RanSpaced => Rebuilds = 1..Len(log)

\* C8 witness: three spaced callbacks, three rebuilds.
C8_Witness ==
    /\ Len(log) = 3
    /\ RanSpaced
    /\ Rebuilds = {1, 2, 3}

IsRebuilt(r) == r.rebuilt

\* Start times of the rebuilds so far, the initial build first.
Starts ==
    LET ev == SelectSeq(log, IsRebuilt)
        evStarts == [i \in 1..Len(ev) |-> ev[i].ran]
    IN  IF initStart >= 0 THEN <<initStart>> \o evStarts ELSE evStarts

\* C9: the start times of two consecutive rebuilds (the initial build and
\* failed rebuilds included) are at least debounce_time apart.
C9_RebuildStartsSpaced ==
    \A i \in 2..Len(Starts) : Starts[i] - Starts[i - 1] >= debounce_time

Rebuilding(t) == wpc[t] \in {"build", "persist"}

\* C10: with two callbacks of the handler running concurrently, at no point
\* are two rebuilds in progress at once.
C10_OneRebuildAtATime ==
    Cardinality({t \in Threads : Rebuilding(t)}) <= 1

\* The dispatch thread is about to run the callback of a delete event for a
\* regular file, outside the debounce window.
DeleteCallbackDue ==
    /\ wpc[Observer] = "idle"
    /\ observer = "running"
    /\ queue # <<>>
    /\ Head(queue).ev.kind = "deleted"
    /\ ~Head(queue).ev.is_directory
    /\ ~Debounced(now, last_rebuild_time)

\* C11: the callback of a delete event for a regular file, run outside the
\* debounce window, starts a rebuild of the whole tree.
C11_DeleteStartsRebuild ==
    [][(DeleteCallbackDue /\ queue' = Tail(queue)) => wpc'[Observer] = "build"]_vars

\* C12: a failure in a rebuild (the initial build included) or in a reload
\* never ends a process: the watcher goes on handling events.
C12_WatcherSurvives ==
    \A t \in Threads : wpc[t] # "dead"

\* The watcher found the storage directory populated and built nothing.
NoInitialBuild == wpc[Observer] # "start" /\ initStart = -1

\* The initial build ran to completion and the observer was started after it.
InitialBuildDone == initStart >= 0 /\ observer = "running"

\* C13, the ordering at watcher start: no event is delivered before the
\* observer is started; an initial build only starts from a missing or empty
\* storage directory; when the observer runs after an initial build, that
\* build was persisted completely, and it is the only build until an event
\* rebuilds; on a populated storage directory no initial build runs and
\* storage stays as it was until an event rebuilds.
InitialBuildOrdering ==
    /\ observer = "off" => (queue = <<>> /\ log = <<>>)
    /\ wInitial[Observer] => listdir_empty(snap[Observer])
    /\ InitialBuildDone => newest >= 1
    /\ (InitialBuildDone /\ Rebuilds = {}) =>
            (StorageIntact /\ newest = 1 /\ nextVer = 2)
    /\ (NoInitialBuild /\ Rebuilds = {}) =>
            (observer = "running" /\ files = FullSet(1) /\ fsclock = NFiles)

\* A query is running.
QueryRunning == caller = "query" /\ qpc \in {"load", "stamp", "answer"}

\* C13 as stated: the ordering at watcher start, and consequently no query
\* runs before a first index has been persisted completely.
C13_NoQueryBeforeFirstIndex ==
    /\ InitialBuildOrdering
    /\ QueryRunning => newest >= 1

\* C13 amended: the ordering at watcher start; a query made before a first
\* index has been persisted completely is not held back, it is answered
\* with the sentinel.
C13_InitialBuildBeforeObserver ==
    /\ InitialBuildOrdering
    /\ newest = 0 => result.kind \in {"none", "unavailable"}

\* C13 witness: the observer runs after the completed initial build, no event
\* has rebuilt yet, and a query made before the build completed got the
\* sentinel.
C13_Witness ==
    /\ InitialBuildDone
    /\ Rebuilds = {}
    /\ newest = 1
    /\ ~everLoaded
    /\ result = Unavailable

\* C14: when the backend call of a query raises, query returns the error
\* string, and index, query engine and last_modified are after the call what
\* they were before it.
C14_BackendFailureContained ==
    [][(qpc = "answer" /\ qpc' = "idle" /\ result'.kind = "error") =>
            /\ query_engine # None
            /\ result'.from = query_engine
            /\ index' = index
            /\ query_engine' = query_engine
            /\ last_modified' = last_modified]_vars

\* C14 witness: a query has returned the error string and the manager still
\* holds the index the failed call ran against.
C14_Witness ==
    /\ qpc = "idle"
    /\ result.kind = "error"
    /\ index # None
    /\ query_engine = index
    /\ result.from = index
    /\ last_modified > 0

\* C15: whenever an event-triggered rebuild completes, whether it succeeded
\* or failed, the handler is idle again and last_rebuild_time is the time
\* that rebuild started.
C15_ClockAdvancesOnCompletion ==
    [][\A t \in Threads :
          (Rebuilding(t) /\ ~wInitial[t] /\ ~Rebuilding(t)') =>
              (wpc'[t] = "idle" /\ last_rebuild_time' = current_time[t])]_vars

\* C16: whenever the manager holds an index, last_modified is the newest
\* modification time of the artifact files that index was loaded from.
C16_StampIsOfLoadedFiles ==
    index # None => last_modified = loadedTime

\* C17: the manager's index is absent exactly when no load has succeeded yet
\* or the most recent load attempt failed; index and query engine are both
\* present or both absent.
C17_IndexPresence ==
    /\ (index = None) <=> (~everLoaded \/ lastLoad = "failed")
    /\ (index = None) <=> (query_engine = None)

\* C17 witness: an index had been loaded, the most recent load attempt
\* failed, and the manager holds neither index nor query engine.
C17_Witness ==
    /\ everLoaded
    /\ lastLoad = "failed"
    /\ index = None
    /\ query_engine = None
    /\ qpc = "idle"

\* The dispatch thread is about to run the callback of a qualifying event
\* inside the debounce window.
DropDue ==
    /\ wpc[Observer] = "idle"
    /\ observer = "running"
    /\ queue # <<>>
    /\ Qualifies(Head(queue).ev)
    /\ Debounced(now, last_rebuild_time)

\* C18: a callback that runs inside the debounce window starts no rebuild and
\* leaves last_rebuild_time and storage as they are; the event is gone from
\* the queue, every event gets at most one callback, and a rebuild that is
\* running belongs to the last callback, which passed the debounce check.
C18_DroppedNotQueued ==
    [][/\ (DropDue /\ log' # log) =>
              /\ queue' = Tail(queue)
              /\ log' = Append(log, [fired |-> Head(queue).fired, ran |-> now,
                                     rebuilt |-> FALSE])
              /\ wpc' = wpc
              /\ last_rebuild_time' = last_rebuild_time
              /\ UNCHANGED storageVars
       /\ Len(log') + Len(queue') <= nFired'
       /\ (Rebuilding(Observer)' /\ ~wInitial'[Observer]) =>
              (log' # <<>> /\ log'[Len(log')].rebuilt)]_vars

\* C18 witness: the second event was dropped, no event is waiting, the
\* handler is idle and time has passed since.
C18_Witness ==
    /\ Len(log) = 2
    /\ log[1].rebuilt
    /\ ~log[2].rebuilt
    /\ queue = <<>>
    /\ wpc[Observer] = "idle"
    /\ now > log[2].ran
    /\ last_rebuild_time = log[1].ran

\* Start time of the last event-triggered rebuild, 0 if none.
LastStart == Max({0} \cup {log[i].ran : i \in Rebuilds})

\* A qualifying event is waiting and at least debounce_time has passed since
\* the start of the last rebuild.
EventOutsideWindow ==
    /\ \E i \in 1..Len(queue) : Qualifies(queue[i].ev)
    /\ now - LastStart >= debounce_time

\* C19: a callback inside the window never extends the window, and whenever
\* a qualifying event waits at least debounce_time after the start of the
\* last rebuild, another rebuild is executed: under a continuous stream of
\* events rebuilds are not postponed by the events in between.
C19_NoPostponement ==
    /\ [][(DropDue /\ log' # log) => last_rebuild_time' = last_rebuild_time]_vars
    /\ \A n \in 0..StreamEvents :
          (EventOutsideWindow /\ Cardinality(Rebuilds) = n)
              ~> (Cardinality(Rebuilds) > n)

\* C19 witness: in a stream of events one per second, the second was dropped
\* inside the window of the first rebuild and the third was rebuilt for.
C19_Witness ==
    /\ Len(log) = 3
    /\ log[1].rebuilt /\ ~log[2].rebuilt /\ log[3].rebuilt
    /\ log[2].fired = log[1].fired + 1
    /\ log[3].fired = log[2].fired + 1
    /\ log[3].ran - log[2].ran < debounce_time

\* C20: last_modified is changed only by a successful load; a query whose
\* staleness check finds the storage timestamp not greater than
\* last_modified goes on to answer without a reload and leaves index, query
\* engine and last_modified as they are; a failed load leaves last_modified
\* as it is; and a query whose staleness check finds the storage timestamp
\* greater than last_modified attempts the reload, also after failed ones.
C20_StampOnlyOnSuccessfulLoad ==
    [][/\ last_modified' # last_modified => (qpc = "stamp" /\ lastLoad' = "ok")
       /\ (qpc = "idle" /\ qpc' # "idle"
             /\ ~(get_index_modification_time > last_modified)) =>
              /\ qpc' = "answer"
              /\ index' = index
              /\ query_engine' = query_engine
              /\ last_modified' = last_modified
       /\ (qpc = "load" /\ qpc' # "load" /\ lastLoad' = "failed") =>
              last_modified' = last_modified
       /\ (qpc = "idle" /\ qpc' # "idle"
             /\ get_index_modification_time > last_modified) =>
              qpc' = "load"]_vars

\* C20 witness: after a load had succeeded, a reload failed and left
\* last_modified behind the storage timestamp; the next query is attempting
\* the reload again.
C20_Witness ==
    /\ qpc = "load"
    /\ caller = "query"
    /\ everLoaded
    /\ lastLoad = "failed"
    /\ last_modified > 0
    /\ get_index_modification_time > last_modified

====
